---- MODULE Spec2Model ----
(***************************************************************************)
(* File-level feature extraction over a Binary Ninja view                  *)
(* (capa/features/extractors/binja/file.py).                               *)
(*                                                                         *)
(* A Python string is a sequence of one-character strings, so that         *)
(* startswith / endswith / slicing are computed on the characters.         *)
(* Feature labels that the code only ever passes around whole              *)
(* ("embedded pe", "pe", ...) are kept as plain strings.                   *)
(* A bytes object is a sequence of integers 0..255; Python offset k is     *)
(* element k+1.                                                            *)
(* A generator is its pending output plus the way it ends.                 *)
(***************************************************************************)
EXTENDS Integers, Sequences, FiniteSets, TLC

VARIABLES bv, status, cur, pos, delivered, origin, started, pulls, error

vars == <<bv, status, cur, pos, delivered, origin, started, pulls, error>>

(* ------------------------------ bounds -------------------------------- *)
MaxSyms == 1        \* symbols in a view of the symbol family
MaxPipeSyms == 1    \* symbols in a view of the pipeline family
MaxSegs == 1        \* segments in a view of the segment family
MaxAddr == 1        \* symbol addresses are 1..MaxAddr

(* ------------------------- string primitives -------------------------- *)
StartsWith(s, p) == Len(s) >= Len(p) /\ SubSeq(s, 1, Len(p)) = p

EndsWith(s, p) == Len(s) >= Len(p) /\ SubSeq(s, Len(s) - Len(p) + 1, Len(s)) = p

\* Python s[a:b] for 0 <= a, b possibly negative (counted from the end)
Slice(s, a, b) ==
    LET e == IF b < 0 THEN Len(s) + b ELSE IF b > Len(s) THEN Len(s) ELSE b
    IN  IF e <= a THEN <<>> ELSE SubSeq(s, a + 1, e)

\* position (1-based) of the last occurrence of character c in s, 0 if none
RECURSIVE LastIndexOf(_, _)
LastIndexOf(s, c) ==
    IF s = <<>> THEN 0
    ELSE IF s[Len(s)] = c THEN Len(s)
    ELSE LastIndexOf(SubSeq(s, 1, Len(s) - 1), c)

RECURSIVE Flatten(_)
Flatten(ss) == IF ss = <<>> THEN <<>> ELSE Head(ss) \o Flatten(Tail(ss))

Digit(d) == <<"0", "1", "2", "3", "4", "5", "6", "7", "8", "9">>[d + 1]

\* str(n) for n >= 0, as the f-string f"#{ordinal}" formats it
RECURSIVE IntToStr(_)
IntToStr(n) == IF n < 10 THEN <<Digit(n)>> ELSE IntToStr(n \div 10) \o <<Digit(n % 10)>>

IsDigit(c) == c \in {"0", "1", "2", "3", "4", "5", "6", "7", "8", "9"}

(* ------------------------ features, addresses ------------------------- *)
Export(n) == [kind |-> "Export", value |-> n]
Import(n) == [kind |-> "Import", value |-> n]
Section(n) == [kind |-> "Section", value |-> n]
FunctionName(n) == [kind |-> "FunctionName", value |-> n]
String(v) == [kind |-> "String", value |-> v]
Characteristic(l) == [kind |-> "Characteristic", value |-> l]
Format(l) == [kind |-> "Format", value |-> l]

FORMAT_PE == "pe"
FORMAT_ELF == "elf"
FORMAT_SC32 == "sc32"
FORMAT_SC64 == "sc64"
FORMAT_BINJA_DB == "binja-db"

\* type is the Python class of the address object; "int" is a bare integer
AbsoluteVirtualAddress(v) == [type |-> "AbsoluteVirtualAddress", value |-> v]
FileOffsetAddress(v) == [type |-> "FileOffsetAddress", value |-> v]
NO_ADDRESS == [type |-> "NoAddress", value |-> 0]
BareInt(v) == [type |-> "int", value |-> v]

Obs(f, a) == [feature |-> f, addr |-> a]

(* ---------------- helpers outside file.py (from the design) ----------- *)
StripPath(lib) ==
    LET a == LastIndexOf(lib, "/")
        b == LastIndexOf(lib, "\\")
        k == IF a > b THEN a ELSE b
    IN  SubSeq(lib, k + 1, Len(lib))

StripExtension(lib) ==
    LET k == LastIndexOf(lib, ".")
    IN  IF k > 0 THEN SubSeq(lib, 1, k - 1) ELSE lib

\* capa.features.extractors.helpers.generate_symbols
generate_symbols(dll, symbol, include_dll) ==
    LET library == StripExtension(StripPath(dll))
    IN  (IF include_dll /\ library # <<>>
         THEN <<library \o <<".">> \o symbol>> ELSE <<>>) \o <<symbol>>

\* capa.features.extractors.helpers.reformat_forwarded_export_name
reformat_forwarded_export_name(raw) ==
    LET k == LastIndexOf(raw, ".")
    IN  IF k = 0 THEN raw
        ELSE StripExtension(SubSeq(raw, 1, k - 1)) \o <<".">> \o SubSeq(raw, k + 1, Len(raw))

\* drop a trailing stdcall "@N" (N one or more digits)
RECURSIVE StripStdcall(_, _)
StripStdcall(n, k) ==
    IF k < 1 THEN n
    ELSE IF IsDigit(n[k]) THEN StripStdcall(n, k - 1)
    ELSE IF n[k] = "@" /\ k < Len(n) THEN SubSeq(n, 1, k - 1)
    ELSE n

\* capa.features.extractors.binja.helpers.unmangle_c_name
RECURSIVE unmangle_c_name(_)
unmangle_c_name(name) ==
    IF name # <<>> /\ name[1] \in {"_", "@"}
    THEN unmangle_c_name(StripStdcall(Tail(name), Len(name) - 1))
    ELSE name

\* capa.features.extractors.binja.helpers.read_c_string: the characters
\* stored at address up to the terminator, at most max_len of them
read_c_string(view, address, max_len) == Slice(view.mem[address], 0, max_len)

MZ == <<77, 90>>
PE_SIGNATURE == <<80, 69, 0, 0>>
E_LFANEW == 60

U32LE(buf, off) ==
    buf[off + 1] + 256 * buf[off + 2] + 65536 * buf[off + 3] + 16777216 * buf[off + 4]

\* is there a legacy header at offset m whose pointer leads to the signature
IsPEAt(buf, m) ==
    /\ m + 2 <= Len(buf)
    /\ buf[m + 1] = MZ[1]
    /\ buf[m + 2] = MZ[2]
    /\ m + E_LFANEW + 4 <= Len(buf)
    /\ LET h == U32LE(buf, m + E_LFANEW)
       IN  /\ m + h + 4 <= Len(buf)
           /\ SubSeq(buf, m + h + 1, m + h + 4) = PE_SIGNATURE

\* capa.features.extractors.helpers.carve_pe: offsets >= start, ascending
carve_pe(buf, start) ==
    LET n == IF Len(buf) > start THEN Len(buf) - start ELSE 0
    IN  SelectSeq([i \in 1..n |-> start + i - 1], LAMBDA m : IsPEAt(buf, m))

(* ------------------------------ handlers ------------------------------ *)
\* a view bv is a record: view_type, arch (bv.arch.name), database (bv.file.database
\* is not None), start, segments (records start, data = bv.read(start, length)),
\* symbols (records type, binding, short_name, namespace, ordinal, address),
\* sections (records name, start), strings (records value, start),
\* mem (address -> the C string stored there)

get_symbols_of_type(view, t) == SelectSeq(view.symbols, LAMBDA sym : sym.type = t)

\* variant: skips the first byte of the first segment whatever the view type
check_segment_for_pe_AnyView(view, seg) ==
    LET start == IF seg.start = view.start THEN 1 ELSE 0
        offsets == carve_pe(seg.data, start)
    IN  [i \in 1..Len(offsets) |->
            Obs(Characteristic("embedded pe"), FileOffsetAddress(seg.start + offsets[i]))]

check_segment_for_pe(view, seg) ==
    LET start == IF view.view_type = "PE" /\ seg.start = view.start THEN 1 ELSE 0
        offsets == carve_pe(seg.data, start)
    IN  [i \in 1..Len(offsets) |->
            Obs(Characteristic("embedded pe"), FileOffsetAddress(seg.start + offsets[i]))]

extract_file_embedded_pe(view) ==
    Flatten([i \in 1..Len(view.segments) |-> check_segment_for_pe(view, view.segments[i])])

FORWARDER_PREFIX == <<"_", "_", "f", "o", "r", "w", "a", "r", "d", "e", "r", "_", "n", "a", "m", "e">>
FORWARDER_OPEN == FORWARDER_PREFIX \o <<"(">>
FORWARDER_INNER_START == 17
READ_C_STRING_MAX == 1024

\* variant: weak bindings are not exported
ExportPatternSym_GlobalOnly(sym) ==
    IF sym.binding \in {"GlobalBinding"}
    THEN LET name == sym.short_name
         IN  IF StartsWith(name, FORWARDER_OPEN) /\ EndsWith(name, <<")">>)
             THEN << Obs(Export(Slice(name, FORWARDER_INNER_START, -1)), AbsoluteVirtualAddress(sym.address)),
                     Obs(Characteristic("forwarded export"), AbsoluteVirtualAddress(sym.address)) >>
             ELSE <<Obs(Export(name), AbsoluteVirtualAddress(sym.address))>> \o
                  (LET unmangled_name == unmangle_c_name(name)
                   IN  IF name # unmangled_name
                       THEN <<Obs(Export(unmangled_name), AbsoluteVirtualAddress(sym.address))>>
                       ELSE <<>>)
    ELSE <<>>

\* first loop of extract_file_export_names, one symbol
ExportPatternSym(sym) ==
    IF sym.binding \in {"GlobalBinding", "WeakBinding"}
    THEN LET name == sym.short_name
         IN  IF StartsWith(name, FORWARDER_OPEN) /\ EndsWith(name, <<")">>)
             THEN << Obs(Export(Slice(name, FORWARDER_INNER_START, -1)), AbsoluteVirtualAddress(sym.address)),
                     Obs(Characteristic("forwarded export"), AbsoluteVirtualAddress(sym.address)) >>
             ELSE <<Obs(Export(name), AbsoluteVirtualAddress(sym.address))>> \o
                  (LET unmangled_name == unmangle_c_name(name)
                   IN  IF name # unmangled_name
                       THEN <<Obs(Export(unmangled_name), AbsoluteVirtualAddress(sym.address))>>
                       ELSE <<>>)
    ELSE <<>>

\* second loop of extract_file_export_names, one symbol
ExportFallbackSym(view, sym) ==
    IF sym.binding \notin {"GlobalBinding"} THEN <<>>
    ELSE IF ~StartsWith(sym.short_name, FORWARDER_PREFIX) THEN <<>>
    ELSE LET name == read_c_string(view, sym.address, READ_C_STRING_MAX)
             forwarded_name == reformat_forwarded_export_name(name)
         IN  << Obs(Export(forwarded_name), AbsoluteVirtualAddress(sym.address)),
                Obs(Characteristic("forwarded export"), AbsoluteVirtualAddress(sym.address)) >>

extract_file_export_names(view) ==
    LET first == get_symbols_of_type(view, "FunctionSymbol") \o get_symbols_of_type(view, "DataSymbol")
        second == get_symbols_of_type(view, "DataSymbol")
    IN  Flatten([i \in 1..Len(first) |-> ExportPatternSym(first[i])]) \o
        Flatten([i \in 1..Len(second) |-> ExportFallbackSym(view, second[i])])

\* variant: the ordinal names do not depend on the library name
ImportSym_OrdinalOnly(sym) ==
    LET lib_name == sym.namespace
        addr == AbsoluteVirtualAddress(sym.address)
        names == generate_symbols(lib_name, sym.short_name, TRUE)
        ordinal == sym.ordinal
        ordinal_names ==
            IF ordinal # 0
            THEN generate_symbols(lib_name, <<"#">> \o IntToStr(ordinal), TRUE)
            ELSE <<>>
    IN  [i \in 1..Len(names) |-> Obs(Import(names[i]), addr)] \o
        [i \in 1..Len(ordinal_names) |-> Obs(Import(ordinal_names[i]), addr)]

ImportSym(sym) ==
    LET lib_name == sym.namespace
        addr == AbsoluteVirtualAddress(sym.address)
        names == generate_symbols(lib_name, sym.short_name, TRUE)
        ordinal == sym.ordinal
        ordinal_names ==
            IF ordinal # 0 /\ lib_name # <<>>
            THEN generate_symbols(lib_name, <<"#">> \o IntToStr(ordinal), TRUE)
            ELSE <<>>
    IN  [i \in 1..Len(names) |-> Obs(Import(names[i]), addr)] \o
        [i \in 1..Len(ordinal_names) |-> Obs(Import(ordinal_names[i]), addr)]

extract_file_import_names(view) ==
    LET syms == get_symbols_of_type(view, "ImportAddressSymbol")
    IN  Flatten([i \in 1..Len(syms) |-> ImportSym(syms[i])])

extract_file_section_names(view) ==
    [i \in 1..Len(view.sections) |->
        Obs(Section(view.sections[i].name), AbsoluteVirtualAddress(view.sections[i].start))]

extract_file_strings(view) ==
    [i \in 1..Len(view.strings) |->
        Obs(String(view.strings[i].value), FileOffsetAddress(view.strings[i].start))]

\* keys of the bv.symbols mapping, in order of first appearance
RECURSIVE SymbolNames(_)
SymbolNames(syms) ==
    IF syms = <<>> THEN <<>>
    ELSE <<Head(syms).short_name>> \o
         SymbolNames(SelectSeq(Tail(syms), LAMBDA sym : sym.short_name # Head(syms).short_name))

\* variant: the first character is dropped whatever it is
FunctionNameSym_AlwaysStrip(sym) ==
    IF sym.type \notin {"LibraryFunctionSymbol", "FunctionSymbol"} THEN <<>>
    ELSE LET name == sym.short_name
         IN  << Obs(FunctionName(name), BareInt(sym.address)),
                Obs(FunctionName(Slice(name, 1, Len(name))), BareInt(sym.address)) >>

FunctionNameSym(sym) ==
    IF sym.type \notin {"LibraryFunctionSymbol", "FunctionSymbol"} THEN <<>>
    ELSE LET name == sym.short_name
         IN  <<Obs(FunctionName(name), BareInt(sym.address))>> \o
             (IF StartsWith(name, <<"_">>)
              THEN <<Obs(FunctionName(Slice(name, 1, Len(name))), BareInt(sym.address))>>
              ELSE <<>>)

extract_file_function_names(view) ==
    LET keys == SymbolNames(view.symbols)
        group(k) == SelectSeq(view.symbols, LAMBDA sym : sym.short_name = k)
    IN  Flatten([j \in 1..Len(keys) |->
            Flatten([i \in 1..Len(group(keys[j])) |-> FunctionNameSym(group(keys[j])[i])])])

NoError == "none"

\* a finished generator body: what it yielded, and the exception that ended it
Returns(out) == [out |-> out, raises |-> NoError]
Raises(out, e) == [out |-> out, raises |-> e]

\* variant: COFF is not recognised
extract_file_format_NoCOFF(view) ==
    LET db == IF view.database THEN <<Obs(Format(FORMAT_BINJA_DB), NO_ADDRESS)>> ELSE <<>>
        view_type == view.view_type
    IN  IF view_type \in {"PE"} THEN Returns(db \o <<Obs(Format(FORMAT_PE), NO_ADDRESS)>>)
        ELSE IF view_type = "ELF" THEN Returns(db \o <<Obs(Format(FORMAT_ELF), NO_ADDRESS)>>)
        ELSE IF view_type = "Mapped"
        THEN IF view.arch = "x86" THEN Returns(db \o <<Obs(Format(FORMAT_SC32), NO_ADDRESS)>>)
             ELSE IF view.arch = "x86_64" THEN Returns(db \o <<Obs(Format(FORMAT_SC64), NO_ADDRESS)>>)
             ELSE Raises(db, "NotImplementedError: unexpected raw file with arch")
        ELSE IF view_type = "Raw" THEN Returns(db)
        ELSE Raises(db, "NotImplementedError: unexpected file format")

\* variant: the view is validated before anything is yielded
extract_file_format_ValidateFirst(view) ==
    LET db == IF view.database THEN <<Obs(Format(FORMAT_BINJA_DB), NO_ADDRESS)>> ELSE <<>>
        view_type == view.view_type
    IN  IF view_type \in {"PE", "COFF"} THEN Returns(db \o <<Obs(Format(FORMAT_PE), NO_ADDRESS)>>)
        ELSE IF view_type = "ELF" THEN Returns(db \o <<Obs(Format(FORMAT_ELF), NO_ADDRESS)>>)
        ELSE IF view_type = "Mapped"
        THEN IF view.arch = "x86" THEN Returns(db \o <<Obs(Format(FORMAT_SC32), NO_ADDRESS)>>)
             ELSE IF view.arch = "x86_64" THEN Returns(db \o <<Obs(Format(FORMAT_SC64), NO_ADDRESS)>>)
             ELSE Raises(<<>>, "NotImplementedError: unexpected raw file with arch")
        ELSE IF view_type = "Raw" THEN Returns(db)
        ELSE Raises(<<>>, "NotImplementedError: unexpected file format")

extract_file_format(view) ==
    LET db == IF view.database THEN <<Obs(Format(FORMAT_BINJA_DB), NO_ADDRESS)>> ELSE <<>>
        view_type == view.view_type
    IN  IF view_type \in {"PE", "COFF"} THEN Returns(db \o <<Obs(Format(FORMAT_PE), NO_ADDRESS)>>)
        ELSE IF view_type = "ELF" THEN Returns(db \o <<Obs(Format(FORMAT_ELF), NO_ADDRESS)>>)
        ELSE IF view_type = "Mapped"
        THEN IF view.arch = "x86" THEN Returns(db \o <<Obs(Format(FORMAT_SC32), NO_ADDRESS)>>)
             ELSE IF view.arch = "x86_64" THEN Returns(db \o <<Obs(Format(FORMAT_SC64), NO_ADDRESS)>>)
             ELSE Raises(db, "NotImplementedError: unexpected raw file with arch")
        ELSE IF view_type = "Raw" THEN Returns(db)
        ELSE Raises(db, "NotImplementedError: unexpected file format")

\* variant: the handlers in the order of the design's table
FILE_HANDLERS_TableOrder ==
    << "extract_file_embedded_pe",
       "extract_file_export_names",
       "extract_file_import_names",
       "extract_file_section_names",
       "extract_file_strings",
       "extract_file_function_names",
       "extract_file_format" >>

FILE_HANDLERS ==
    << "extract_file_export_names",
       "extract_file_import_names",
       "extract_file_strings",
       "extract_file_section_names",
       "extract_file_embedded_pe",
       "extract_file_function_names",
       "extract_file_format" >>

\* file_handler(bv): the generator the named handler makes for the view
Run(file_handler, view) ==
    CASE file_handler = "extract_file_export_names" -> Returns(extract_file_export_names(view))
      [] file_handler = "extract_file_import_names" -> Returns(extract_file_import_names(view))
      [] file_handler = "extract_file_strings" -> Returns(extract_file_strings(view))
      [] file_handler = "extract_file_section_names" -> Returns(extract_file_section_names(view))
      [] file_handler = "extract_file_embedded_pe" -> Returns(extract_file_embedded_pe(view))
      [] file_handler = "extract_file_function_names" -> Returns(extract_file_function_names(view))
      [] file_handler = "extract_file_format" -> extract_file_format(view)

(* ---------------------------- extract_features ------------------------ *)
\* The generator suspended in handler number h (0: not yet started) after p
\* of that handler's observations runs on: the next thing it does, and
\* where it is suspended afterwards.
RECURSIVE Advance(_, _, _)
Advance(view, h, p) ==
    LET r == Run(FILE_HANDLERS[h], view)
    IN  IF h >= 1 /\ p < Len(r.out)
        THEN [kind |-> "yield", cur |-> h, pos |-> p + 1, obs |-> r.out[p + 1], error |-> NoError]
        ELSE IF h >= 1 /\ r.raises # NoError
        THEN [kind |-> "raise", cur |-> h, pos |-> p, obs |-> Obs(Format(""), NO_ADDRESS),
              error |-> r.raises]
        ELSE IF h = Len(FILE_HANDLERS)
        THEN [kind |-> "stop", cur |-> h, pos |-> p, obs |-> Obs(Format(""), NO_ADDRESS),
              error |-> NoError]
        ELSE Advance(view, h + 1, 0)

\* variant: every handler is run to build the whole list on the first call
Resume_Eager(view, h, p) ==
    [step |-> Advance(view, h, p),
     entered |-> {FILE_HANDLERS[i] : i \in (h + 1)..Len(FILE_HANDLERS)}]

\* One __next__ of extract_features: the step, and the handlers whose
\* bodies began to run during it (those the for loop reached).
Resume(view, h, p) ==
    LET step == Advance(view, h, p)
    IN  [step |-> step, entered |-> {FILE_HANDLERS[i] : i \in (h + 1)..step.cur}]

\* next(it) hands an observation to the caller
NextYield ==
    /\ status = "suspended"
    /\ LET r == Resume(bv, cur, pos)
       IN  /\ r.step.kind = "yield"
           /\ cur' = r.step.cur
           /\ pos' = r.step.pos
           /\ delivered' = Append(delivered, r.step.obs)
           /\ origin' = Append(origin, FILE_HANDLERS[r.step.cur])
           /\ started' = started \cup r.entered
    /\ pulls' = pulls + 1
    /\ UNCHANGED <<bv, status, error>>

\* next(it) lets the handler's exception through; the generator is finished
NextRaise ==
    /\ status = "suspended"
    /\ LET r == Resume(bv, cur, pos)
       IN  /\ r.step.kind = "raise"
           /\ cur' = r.step.cur
           /\ pos' = r.step.pos
           /\ error' = r.step.error
           /\ started' = started \cup r.entered
    /\ status' = "error"
    /\ pulls' = pulls + 1
    /\ UNCHANGED <<bv, delivered, origin>>

\* next(it) raises StopIteration: all handlers are exhausted
NextStop ==
    /\ status = "suspended"
    /\ LET r == Resume(bv, cur, pos)
       IN  /\ r.step.kind = "stop"
           /\ cur' = r.step.cur
           /\ pos' = r.step.pos
           /\ started' = started \cup r.entered
    /\ status' = "done"
    /\ pulls' = pulls + 1
    /\ UNCHANGED <<bv, delivered, origin, error>>

\* the caller stops pulling and drops the generator
Close ==
    /\ status = "suspended"
    /\ status' = "closed"
    /\ UNCHANGED <<bv, cur, pos, delivered, origin, started, pulls, error>>

(* ------------------------------- inputs ------------------------------- *)
Addresses == 1..MaxAddr

SeqsUpTo(S, n) == UNION {[1..k -> S] : k \in 0..n}

Names ==
    { <<"f">>, <<"_", "f">>, <<"_", "f", "@", "4">>,
      FORWARDER_OPEN \o <<"m", ".", "f", ")">>,
      FORWARDER_OPEN \o <<"m">>,
      FORWARDER_PREFIX }

CStrings == { <<"m", ".", "d", "l", "l", ".", "f">>, <<"m", "f">> }

Libraries == { <<>>, <<"k", ".", "d", "l", "l">>, <<"c", ":", "\\", "k", ".", "d", "l", "l">> }

ExportSymbols ==
    [type : {"FunctionSymbol", "DataSymbol"},
     binding : {"GlobalBinding", "WeakBinding", "LocalBinding"},
     short_name : Names, namespace : {<<>>}, ordinal : {0}]

NamedSymbols ==
    [type : {"LibraryFunctionSymbol"}, binding : {"GlobalBinding"},
     short_name : {<<"f">>, <<"_", "f">>, <<"_", "_", "f">>},
     namespace : {<<>>}, ordinal : {0}]
    \cup
    [type : {"ExternalSymbol"}, binding : {"GlobalBinding"},
     short_name : {<<"f">>}, namespace : {<<>>}, ordinal : {0}]

ImportSymbols ==
    [type : {"ImportAddressSymbol"}, binding : {"NoBinding"},
     short_name : {<<"f">>}, namespace : Libraries, ordinal : {0, 12}]

\* symbols without their address
AllSymbols == ExportSymbols \cup NamedSymbols \cup ImportSymbols

\* the symbol table of the given symbols, the addresses 1..MaxAddr dealt in turn
Placed(shapes) ==
    [i \in 1..Len(shapes) |->
        [type |-> shapes[i].type, binding |-> shapes[i].binding,
         short_name |-> shapes[i].short_name, namespace |-> shapes[i].namespace,
         ordinal |-> shapes[i].ordinal, address |-> ((i - 1) % MaxAddr) + 1]]

Sym(t, b, n, ns, o, a) ==
    [type |-> t, binding |-> b, short_name |-> n, namespace |-> ns, ordinal |-> o, address |-> a]

PipeSymbols ==
    { Sym("FunctionSymbol", "GlobalBinding", <<"_", "f">>, <<>>, 0, 1),
      Sym("DataSymbol", "GlobalBinding", FORWARDER_PREFIX, <<>>, 0, 1),
      Sym("ImportAddressSymbol", "NoBinding", <<"f">>, <<"k", ".", "d", "l", "l">>, 7, 1) }

Zeros(n) == [i \in 1..n |-> 0]

\* a minimal legacy header whose pointer leads to a signature right behind it
HeaderImage == MZ \o Zeros(E_LFANEW - 2) \o <<E_LFANEW + 4, 0, 0, 0>> \o PE_SIGNATURE

Buffers ==
    { Zeros(8), HeaderImage, Zeros(4) \o HeaderImage, HeaderImage \o HeaderImage,
      MZ \o Zeros(E_LFANEW + 6) }

\* segments laid out one after the other from base
Segments(base, datas) ==
    [i \in 1..Len(datas) |-> [start |-> base + (i - 1) * 256, data |-> datas[i]]]

ViewTypes == {"PE", "COFF", "ELF", "Mapped", "Raw", "Mach-O"}
Archs == {"x86", "x86_64", "armv7"}

View(vt, a, db, st, segs, syms, secs, strs, m) ==
    [view_type |-> vt, arch |-> a, database |-> db, start |-> st, segments |-> segs,
     symbols |-> syms, sections |-> secs, strings |-> strs, mem |-> m]

\* views that exercise the whole pipeline, the format handler included
PipelineViews ==
    { View(vt, a, db, 0, x.segs, syms, x.secs, x.strs, [y \in Addresses |-> <<"m", ".", "f">>]) :
        vt \in ViewTypes, a \in Archs, db \in BOOLEAN,
        syms \in SeqsUpTo(PipeSymbols, MaxPipeSyms),
        x \in { [segs |-> <<>>, secs |-> <<>>, strs |-> <<>>],
                [segs |-> Segments(256, <<Zeros(4) \o HeaderImage>>),
                 secs |-> <<[name |-> <<".", "t">>, start |-> 4096]>>,
                 strs |-> <<[value |-> <<"h", "i">>, start |-> 16]>>] } }

\* do the symbols make the export handler read a string from memory
ReadsMemory(syms) ==
    \E i \in 1..Len(syms) :
        /\ syms[i].type = "DataSymbol"
        /\ syms[i].binding = "GlobalBinding"
        /\ StartsWith(syms[i].short_name, FORWARDER_PREFIX)

\* views that vary the symbol table, and the string in memory where it is read
SymbolViews ==
    { View("ELF", "x86", FALSE, 0, <<>>, Placed(p[1]), <<>>, <<>>, [x \in Addresses |-> p[2]]) :
        p \in { q \in SeqsUpTo(AllSymbols, MaxSyms) \X CStrings :
                  ReadsMemory(q[1]) \/ q[2] = <<"m", ".", "d", "l", "l", ".", "f">> } }

\* views that vary the segments
SegmentViews ==
    { View(vt, "x86", FALSE, st, Segments(base, datas), <<>>, <<>>, <<>>,
           [x \in Addresses |-> <<>>]) :
        vt \in {"PE", "COFF", "ELF"}, st \in {0, 4096}, base \in {0, 4096},
        datas \in SeqsUpTo(Buffers, MaxSegs) }

Init ==
    /\ bv \in PipelineViews \cup SymbolViews \cup SegmentViews
    /\ status = "suspended"
    /\ cur = 0
    /\ pos = 0
    /\ delivered = <<>>
    /\ origin = <<>>
    /\ started = {}
    /\ pulls = 0
    /\ error = NoError

Next == NextYield \/ NextRaise \/ NextStop \/ Close

Spec == Init /\ [][Next]_vars

TypeOK ==
    /\ status \in {"suspended", "done", "error", "closed"}
    /\ cur \in 0..Len(FILE_HANDLERS)
    /\ Len(origin) = Len(delivered)

(* ------------------------------ properties ---------------------------- *)
OfKind(obs, k) == SelectSeq(obs, LAMBDA o : o.feature.kind = k)

\* the delivered observations that came out of the named handler, in order
DeliveredBy(file_handler) ==
    LET idx == SelectSeq([i \in 1..Len(delivered) |-> i], LAMBDA i : origin[i] = file_handler)
    IN  [j \in 1..Len(idx) |-> delivered[idx[j]]]

Rank(order, file_handler) == CHOOSE i \in 1..Len(order) : order[i] = file_handler

InOrder(order) ==
    \A i, j \in 1..Len(origin) : i < j => Rank(order, origin[i]) <= Rank(order, origin[j])

\* C1 (as stated): observations are delivered in the order of the design's
\* table - embedded executables, exports, imports, sections, strings,
\* function names, format.
C1_TableOrder ==
    InOrder(<< "extract_file_embedded_pe", "extract_file_export_names",
               "extract_file_import_names", "extract_file_section_names",
               "extract_file_strings", "extract_file_function_names",
               "extract_file_format" >>)

\* the handler recorded for an observation is the one that makes its kind
OriginOK ==
    \A i \in 1..Len(delivered) :
        LET f == delivered[i].feature
        IN  CASE f.kind = "Export" -> origin[i] = "extract_file_export_names"
              [] f.kind = "Import" -> origin[i] = "extract_file_import_names"
              [] f.kind = "String" -> origin[i] = "extract_file_strings"
              [] f.kind = "Section" -> origin[i] = "extract_file_section_names"
              [] f.kind = "FunctionName" -> origin[i] = "extract_file_function_names"
              [] f.kind = "Format" -> origin[i] = "extract_file_format"
              [] f.kind = "Characteristic" ->
                    origin[i] = (IF f.value = "embedded pe" THEN "extract_file_embedded_pe"
                                 ELSE "extract_file_export_names")

\* C1 (amended): observations are delivered in the order exports, imports,
\* strings, sections, embedded executables, function names, format.
C1_HandlerOrder ==
    InOrder(<< "extract_file_export_names", "extract_file_import_names",
               "extract_file_strings", "extract_file_section_names",
               "extract_file_embedded_pe", "extract_file_function_names",
               "extract_file_format" >>)

C1_Witness ==
    /\ status = "done"
    /\ \E i, j, k \in 1..Len(delivered) :
          /\ i < j /\ j < k
          /\ delivered[i].feature.kind = "String"
          /\ delivered[j].feature.kind = "Section"
          /\ delivered[k].feature = Characteristic("embedded pe")

FormatLabels == LET f == OfKind(delivered, "Format") IN [i \in 1..Len(f) |-> f[i].feature.value]

\* C2: once the sequence has ended, the Format observations are binja-db
\* (iff database-backed) followed by pe for PE/COFF, elf for ELF, sc32/sc64
\* for Mapped x86/x86_64; Mapped with another architecture and unknown view
\* types fail, Raw adds nothing and does not fail; all at NoAddress.
C2_Format ==
    status \in {"done", "error"} =>
        LET db == IF bv.database THEN <<"binja-db">> ELSE <<>>
            vt == bv.view_type
        IN  /\ \A i \in 1..Len(delivered) :
                  delivered[i].feature.kind = "Format" => delivered[i].addr.type = "NoAddress"
            /\ vt \in {"PE", "COFF"} => status = "done" /\ FormatLabels = db \o <<"pe">>
            /\ vt = "ELF" => status = "done" /\ FormatLabels = db \o <<"elf">>
            /\ vt = "ELF" /\ ~bv.database => Len(OfKind(delivered, "Format")) = 1
            /\ vt = "Mapped" /\ bv.arch = "x86" => status = "done" /\ FormatLabels = db \o <<"sc32">>
            /\ vt = "Mapped" /\ bv.arch = "x86_64" => status = "done" /\ FormatLabels = db \o <<"sc64">>
            /\ vt = "Mapped" /\ bv.arch \notin {"x86", "x86_64"} => status = "error" /\ FormatLabels = db
            /\ vt = "Raw" => status = "done" /\ FormatLabels = db
            /\ vt \notin {"PE", "COFF", "ELF", "Mapped", "Raw"} => status = "error" /\ FormatLabels = db

C2_Witness ==
    /\ status = "done"
    /\ bv.view_type = "ELF"
    /\ ~bv.database
    /\ OfKind(delivered, "Format") = <<Obs(Format("elf"), NO_ADDRESS)>>

\* what the handlers other than the format handler produce, in delivery order
BeforeFormat ==
    Flatten([i \in 1..(Len(FILE_HANDLERS) - 1) |-> Run(FILE_HANDLERS[i], bv).out])

\* C3: extract_features fails only where extract_file_format fails, with
\* that handler's error; at that point everything the earlier handlers
\* produce, and binja-db for a database-backed view, has been delivered, and
\* afterwards nothing is delivered or taken back.
C3_ErrorEndsSequence ==
    /\ [](status = "error" =>
            /\ \/ bv.view_type \notin {"PE", "COFF", "ELF", "Mapped", "Raw"}
                  /\ error = "NotImplementedError: unexpected file format"
               \/ bv.view_type = "Mapped" /\ bv.arch \notin {"x86", "x86_64"}
                  /\ error = "NotImplementedError: unexpected raw file with arch"
            /\ delivered = BeforeFormat \o
                  (IF bv.database THEN <<Obs(Format("binja-db"), NO_ADDRESS)>> ELSE <<>>))
    /\ [][status = "error" => status' = "error" /\ delivered' = delivered /\ error' = error]_vars
    /\ [](status # "error" => error = NoError)

C3_Witness ==
    /\ status = "error"
    /\ bv.database
    /\ Len(delivered) >= 2
    /\ delivered[Len(delivered)] = Obs(Format("binja-db"), NO_ADDRESS)

\* C4: every delivered observation carries an address of exactly one of the
\* three variants AbsoluteVirtualAddress, FileOffsetAddress, NoAddress.
C4_AddressVariant ==
    \A i \in 1..Len(delivered) :
        delivered[i].addr.type \in {"AbsoluteVirtualAddress", "FileOffsetAddress", "NoAddress"}

ImportSyms == get_symbols_of_type(bv, "ImportAddressSymbol")

\* what the design asks of one import-address symbol
ExpectedImports(sym) ==
    LET named == generate_symbols(sym.namespace, sym.short_name, TRUE)
        byOrdinal == generate_symbols(sym.namespace, <<"#">> \o IntToStr(sym.ordinal), TRUE)
        names == IF sym.ordinal # 0 /\ sym.namespace # <<>> THEN named \o byOrdinal ELSE named
    IN  [i \in 1..Len(names) |-> Obs(Import(names[i]), AbsoluteVirtualAddress(sym.address))]

IsFunctionSym(sym) == sym.type \in {"FunctionSymbol", "LibraryFunctionSymbol"}

Underscores(name) ==
    IF StartsWith(name, <<"_", "_">>) THEN 2 ELSE IF StartsWith(name, <<"_">>) THEN 1 ELSE 0

\* C6: per function or library-function symbol the function-name handler
\* delivers one FunctionName when the name has no leading underscore, and
\* FunctionName(name) directly followed by FunctionName(name without the
\* underscore) when it has exactly one, for the symbol's address; other
\* symbols deliver nothing.
C6_FunctionNames ==
    (status = "done" /\ \A i \in 1..Len(bv.symbols) :
                            IsFunctionSym(bv.symbols[i]) => Underscores(bv.symbols[i].short_name) < 2) =>
        LET got == DeliveredBy("extract_file_function_names")
            syms == bv.symbols
            plain == {i \in 1..Len(syms) : IsFunctionSym(syms[i]) /\ Underscores(syms[i].short_name) = 0}
            single == {i \in 1..Len(syms) : IsFunctionSym(syms[i]) /\ Underscores(syms[i].short_name) = 1}
        IN  /\ Len(got) = Cardinality(plain) + 2 * Cardinality(single)
            /\ \A i \in plain : \E k \in 1..Len(got) :
                  /\ got[k].feature = FunctionName(syms[i].short_name)
                  /\ got[k].addr.value = syms[i].address
            /\ \A i \in single : \E k \in 1..(Len(got) - 1) :
                  /\ got[k].feature = FunctionName(syms[i].short_name)
                  /\ got[k + 1].feature = FunctionName(Tail(syms[i].short_name))
                  /\ got[k].addr.value = syms[i].address
                  /\ got[k + 1].addr = got[k].addr

C6_Witness ==
    /\ status = "done"
    /\ Len(bv.symbols) = 1
    /\ bv.symbols[1].type = "LibraryFunctionSymbol"
    /\ bv.symbols[1].short_name = <<"_", "f">>
    /\ LET got == DeliveredBy("extract_file_function_names")
       IN  /\ Len(got) = 2
           /\ got[1].feature = FunctionName(<<"_", "f">>)
           /\ got[2].feature = FunctionName(<<"f">>)

\* the startOffset of the design's policy
PolicyStart(seg) == IF bv.view_type = "PE" /\ seg.start = bv.start THEN 1 ELSE 0

\* C7: the embedded-executable handler carves each segment from offset 1 iff
\* the view is PE and the segment starts the artifact, else from 0, and
\* delivers Characteristic("embedded pe") at the file offset segment start +
\* carved offset; so the PE's own header is not reported, and a header at
\* offset 0 of any other segment or of a non-PE view is.
C7_EmbeddedPE ==
    status = "done" =>
        LET got == DeliveredBy("extract_file_embedded_pe")
            segs == bv.segments
            expected(seg) ==
                LET offs == carve_pe(seg.data, PolicyStart(seg))
                IN  [k \in 1..Len(offs) |->
                        Obs(Characteristic("embedded pe"), FileOffsetAddress(seg.start + offs[k]))]
        IN  /\ got = Flatten([i \in 1..Len(segs) |-> expected(segs[i])])
            /\ \A i \in 1..Len(segs) :
                  IsPEAt(segs[i].data, 0) =>
                      ((\E k \in 1..Len(got) : got[k].addr = FileOffsetAddress(segs[i].start))
                          <=> ~(bv.view_type = "PE" /\ segs[i].start = bv.start))

C7_Witness ==
    /\ status = "done"
    /\ bv.view_type = "PE"
    /\ Len(bv.segments) = 1
    /\ bv.segments[1].start = bv.start
    /\ IsPEAt(bv.segments[1].data, 0)
    /\ DeliveredBy("extract_file_embedded_pe") =
          <<Obs(Characteristic("embedded pe"), FileOffsetAddress(bv.start + Len(HeaderImage)))>>

\* a header at offset 0 that is reported: the segment does not start the PE
C7_WitnessOther ==
    /\ status = "done"
    /\ bv.view_type = "PE"
    /\ Len(bv.segments) = 1
    /\ bv.segments[1].start # bv.start
    /\ bv.segments[1].data = HeaderImage
    /\ DeliveredBy("extract_file_embedded_pe") =
          <<Obs(Characteristic("embedded pe"), FileOffsetAddress(bv.segments[1].start))>>

HandlerOrderAsRun ==
    << "extract_file_export_names", "extract_file_import_names", "extract_file_strings",
       "extract_file_section_names", "extract_file_embedded_pe", "extract_file_function_names",
       "extract_file_format" >>

\* sum of the first k entries of f
RECURSIVE SumTo(_, _)
SumTo(f, k) == IF k <= 0 THEN 0 ELSE SumTo(f, k - 1) + f[k]

\* C8: a handler has begun to run only if the caller has already been handed
\* every observation of the handlers before it and has pulled once more; so
\* after n pulls that each delivered an observation no handler whose output
\* starts after position n has run, and while observations of the first
\* handler are pending no later handler has run.
C8_Lazy ==
    LET n == Len(HandlerOrderAsRun)
        produced == [k \in 1..n |-> Len(Run(HandlerOrderAsRun[k], bv).out)]
        \* number of observations the handlers before number k produce
        before == [k \in 1..n |-> SumTo(produced, k - 1)]
    IN  /\ \A k \in 1..n :
              HandlerOrderAsRun[k] \in started =>
                  /\ Len(delivered) >= before[k]
                  /\ pulls > before[k]
                  /\ \A i \in 1..before[k] : \E j \in 1..(k - 1) : origin[i] = HandlerOrderAsRun[j]
        /\ pulls = Len(delivered) =>
              \A k \in 1..n : before[k] >= Len(delivered) => HandlerOrderAsRun[k] \notin started
        /\ Len(delivered) < before[2] => started \subseteq {HandlerOrderAsRun[1]}

C8_Witness ==
    /\ status = "closed"
    /\ Len(delivered) = 1
    /\ started = {"extract_file_export_names"}
    /\ Len(Run("extract_file_strings", bv).out) > 0
    /\ Len(Run("extract_file_format", bv).out) > 0

ExportSyms == get_symbols_of_type(bv, "FunctionSymbol") \o get_symbols_of_type(bv, "DataSymbol")

FullForwarder(name) == StartsWith(name, FORWARDER_OPEN) /\ EndsWith(name, <<")">>)

Exported(sym) == sym.binding \in {"GlobalBinding", "WeakBinding"}

\* C9 (as stated): the string-read fallback is applied only to global data
\* symbols whose name begins with the forwarder marker without the payload;
\* a symbol whose name is a complete __forwarder_name(...) gives exactly one
\* Export and one Characteristic("forwarded export").
C9_FallbackOnlyWhenTruncated ==
    status = "done" =>
        LET got == DeliveredBy("extract_file_export_names")
            syms == ExportSyms
            full == {i \in 1..Len(syms) : Exported(syms[i]) /\ FullForwarder(syms[i].short_name)}
            truncated == {i \in 1..Len(syms) :
                            /\ syms[i].type = "DataSymbol"
                            /\ syms[i].binding = "GlobalBinding"
                            /\ StartsWith(syms[i].short_name, FORWARDER_PREFIX)
                            /\ ~FullForwarder(syms[i].short_name)}
        IN  /\ Len(SelectSeq(got, LAMBDA o : o.feature = Characteristic("forwarded export")))
                  = Cardinality(full) + Cardinality(truncated)
            /\ Len(syms) = 1 /\ full = {1} => Len(OfKind(got, "Export")) = 1

\* what the design asks of the first pass for one function or data symbol
ExpectedPattern(sym) ==
    LET at == AbsoluteVirtualAddress(sym.address)
        n == sym.short_name
    IN  IF ~Exported(sym) THEN <<>>
        ELSE IF FullForwarder(n)
        THEN <<Obs(Export(SubSeq(n, Len(FORWARDER_OPEN) + 1, Len(n) - 1)), at),
               Obs(Characteristic("forwarded export"), at)>>
        ELSE IF unmangle_c_name(n) # n
        THEN <<Obs(Export(n), at), Obs(Export(unmangle_c_name(n)), at)>>
        ELSE <<Obs(Export(n), at)>>

\* C10: the export handler's output begins with the first pass: per function
\* or data symbol nothing unless its binding is global or weak, Export(inner
\* name) and Characteristic("forwarded export") for a complete
\* __forwarder_name(...), else Export(name) and, iff demangling changes the
\* name, Export(demangled name); all at the symbol's virtual address.  What
\* follows is the second pass: two observations per global data symbol whose
\* name begins with the marker.
C10_PatternPass ==
    status = "done" =>
        LET got == DeliveredBy("extract_file_export_names")
            syms == ExportSyms
            expected == Flatten([i \in 1..Len(syms) |-> ExpectedPattern(syms[i])])
            second == {i \in 1..Len(syms) :
                         /\ syms[i].type = "DataSymbol"
                         /\ syms[i].binding = "GlobalBinding"
                         /\ StartsWith(syms[i].short_name, FORWARDER_PREFIX)}
        IN  /\ Len(got) = Len(expected) + 2 * Cardinality(second)
            /\ SubSeq(got, 1, Len(expected)) = expected
            /\ \A i \in 1..Len(got) : got[i].addr.type = "AbsoluteVirtualAddress"

C10_Witness ==
    /\ status = "done"
    /\ Len(bv.symbols) = 1
    /\ bv.symbols[1].binding = "WeakBinding"
    /\ bv.symbols[1].type = "FunctionSymbol"
    /\ DeliveredBy("extract_file_export_names") =
          << Obs(Export(<<"_", "f", "@", "4">>), AbsoluteVirtualAddress(bv.symbols[1].address)),
             Obs(Export(<<"f">>), AbsoluteVirtualAddress(bv.symbols[1].address)) >>

====
